---- MODULE Spec2Model ----
(***************************************************************************)
(* Model of the survey analysis edge function                              *)
(* (supabase/functions/analyze-survey/index.ts) and of the dashboard code  *)
(* that builds its request (components/survey/ResultsDashboard.tsx).       *)
(*                                                                         *)
(* JavaScript numbers are modelled in fixed point: a finite number x is    *)
(* the record [t |-> "num", v |-> x * Scale]; NaN, +Infinity, -Infinity    *)
(* and undefined are records with their own tag.  Divisions and square     *)
(* roots round towards minus infinity at 1/Scale.                          *)
(***************************************************************************)
EXTENDS Integers, Sequences, FiniteSets, TLC

\* ------------------------------------------------------------------ bounds
MaxRows == 3
MaxUploadCols == 2
MaxLongRows == 21

\* ------------------------------------------------------- number arithmetic
Scale == 10 * 10 * 10

NaN == [t |-> "nan", v |-> 0]
Infinity == [t |-> "inf", v |-> 0]
NegInfinity == [t |-> "ninf", v |-> 0]
Undefined == [t |-> "undef", v |-> 0]

Fix(x) == [t |-> "num", v |-> x]
Num(i) == Fix(i * Scale)
IsNum(a) == a.t = "num"
IsNaN(a) == a.t \in {"nan", "undef"}
IsFinite(a) == a.t = "num"

\* sign of a non-NaN number: -1, 0, 1
Sign(a) ==
  IF a.t = "inf" THEN 1
  ELSE IF a.t = "ninf" THEN -1
  ELSE IF a.v > 0 THEN 1 ELSE IF a.v < 0 THEN -1 ELSE 0

SignedInf(s) == IF s > 0 THEN Infinity ELSE NegInfinity

NumNeg(a) ==
  IF IsNaN(a) THEN NaN
  ELSE IF a.t = "inf" THEN NegInfinity
  ELSE IF a.t = "ninf" THEN Infinity
  ELSE Fix(0 - a.v)

NumAdd(a, b) ==
  IF IsNaN(a) \/ IsNaN(b) THEN NaN
  ELSE IF IsNum(a) /\ IsNum(b) THEN Fix(a.v + b.v)
  ELSE IF IsNum(a) THEN b
  ELSE IF IsNum(b) THEN a
  ELSE IF a.t = b.t THEN a ELSE NaN

NumSub(a, b) == NumAdd(a, NumNeg(b))

NumMul(a, b) ==
  IF IsNaN(a) \/ IsNaN(b) THEN NaN
  ELSE IF IsNum(a) /\ IsNum(b) THEN Fix((a.v * b.v) \div Scale)
  ELSE IF Sign(a) = 0 \/ Sign(b) = 0 THEN NaN
  ELSE SignedInf(Sign(a) * Sign(b))

NumDiv(a, b) ==
  IF IsNaN(a) \/ IsNaN(b) THEN NaN
  ELSE IF IsNum(a) /\ IsNum(b) THEN
    IF b.v = 0 THEN (IF a.v = 0 THEN NaN ELSE SignedInf(Sign(a)))
    ELSE Fix((a.v * Scale) \div b.v)
  ELSE IF IsNum(b) THEN SignedInf(Sign(a) * (IF Sign(b) < 0 THEN -1 ELSE 1))
  ELSE IF IsNum(a) THEN Fix(0)
  ELSE NaN

\* a < b, a <= b as JavaScript compares them (false when either is NaN)
NumLt(a, b) ==
  IF IsNaN(a) \/ IsNaN(b) THEN FALSE
  ELSE IF IsNum(a) /\ IsNum(b) THEN a.v < b.v
  ELSE IF a.t = b.t THEN FALSE
  ELSE a.t = "ninf" \/ b.t = "inf"

NumEq(a, b) == ~IsNaN(a) /\ ~IsNaN(b) /\ a = b
NumLe(a, b) == NumLt(a, b) \/ NumEq(a, b)

RECURSIVE SqrtSearch(_, _, _)
SqrtSearch(x, lo, hi) ==
  IF lo >= hi THEN lo
  ELSE LET mid == (lo + hi + 1) \div 2
       IN IF mid * mid <= x THEN SqrtSearch(x, mid, hi)
          ELSE SqrtSearch(x, lo, mid - 1)

\* floor of the square root of a natural number
ISqrt(x) == SqrtSearch(x, 0, IF x < 46340 THEN x ELSE 46340)

MathSqrt(a) ==
  IF IsNaN(a) THEN NaN
  ELSE IF a.t = "inf" THEN Infinity
  ELSE IF a.t = "ninf" THEN NaN
  ELSE IF a.v < 0 THEN NaN
  ELSE Fix(ISqrt(a.v * Scale))

\* Math.max(a, b): NaN when either argument is NaN
MathMax(a, b) ==
  IF IsNaN(a) \/ IsNaN(b) THEN NaN
  ELSE IF NumLt(a, b) THEN b ELSE a

MathMin(a, b) ==
  IF IsNaN(a) \/ IsNaN(b) THEN NaN
  ELSE IF NumLt(b, a) THEN b ELSE a

\* ------------------------------------------------------ sequence utilities
RECURSIVE SumNums(_)
SumNums(s) == IF s = <<>> THEN Num(0) ELSE NumAdd(SumNums(SubSeq(s, 1, Len(s) - 1)), s[Len(s)])

Range(s) == {s[i] : i \in DOMAIN s}

RECURSIVE Insert(_, _)
Insert(sorted, x) ==
  IF sorted = <<>> THEN <<x>>
  ELSE IF NumLt(x, sorted[1]) THEN <<x>> \o sorted
  ELSE <<sorted[1]>> \o Insert(Tail(sorted), x)

RECURSIVE SortAscending(_)
\* Array.prototype.sort((a, b) => a - b) on finite numbers (stable)
SortAscending(s) ==
  IF s = <<>> THEN <<>>
  ELSE Insert(SortAscending(SubSeq(s, 1, Len(s) - 1)), s[Len(s)])

\* ------------------------------------------------------------------- cells
\* A cell of a column is a string; JSON null is the cell Null.
Null == "\\null"

\* parseFloat on the cells of the model
parseFloat(cell) ==
  IF cell = "-3" THEN Num(-3)
  ELSE IF cell = "0" THEN Num(0)
  ELSE IF cell = "2" THEN Num(2)
  ELSE NaN

\* String(v)
String(cell) == IF cell = Null THEN "null" ELSE cell

\* v !== null && v !== undefined && v !== ''
IsValidValue(cell) == cell # Null /\ cell # ""

\* ------------------------------------------------------- utility functions
Percentile25 == Fix(Scale \div 4)
Percentile50 == Fix(Scale \div 2)
Percentile75 == Fix((3 * Scale) \div 4)

\* Math.floor, Math.ceil, x % 1 on a finite number
MathFloor(a) == a.v \div Scale
MathCeil(a) == 0 - ((0 - a.v) \div Scale)
Mod1(a) == IF a.v >= 0 THEN Fix(a.v % Scale) ELSE Fix(0 - ((0 - a.v) % Scale))

\* sortedArray[i] with a 0-based index; undefined outside the array
At(sortedArray, i) ==
  IF i >= 0 /\ i < Len(sortedArray) THEN sortedArray[i + 1] ELSE Undefined

\* getPercentile with the interpolation weights exchanged
getPercentileSwapped(sortedArray, percentile) ==
  LET index == NumMul(Num(Len(sortedArray) - 1), percentile)
      lower == MathFloor(index)
      upper == MathCeil(index)
      weight == Mod1(index)
  IN IF upper >= Len(sortedArray) THEN At(sortedArray, Len(sortedArray) - 1)
     ELSE NumAdd(NumMul(At(sortedArray, lower), weight),
                 NumMul(At(sortedArray, upper), NumSub(Num(1), weight)))

getPercentile(sortedArray, percentile) ==
  LET index == NumMul(Num(Len(sortedArray) - 1), percentile)
      lower == MathFloor(index)
      upper == MathCeil(index)
      weight == Mod1(index)
  IN IF upper >= Len(sortedArray) THEN At(sortedArray, Len(sortedArray) - 1)
     ELSE NumAdd(NumMul(At(sortedArray, lower), NumSub(Num(1), weight)),
                 NumMul(At(sortedArray, upper), weight))

RECURSIVE MathPow(_, _)
MathPow(a, k) == IF k = 1 THEN a ELSE NumMul(MathPow(a, k - 1), a)

Mean(values) == NumDiv(SumNums(values), Num(Len(values)))

calculateStandardDeviation(values) ==
  LET mean == Mean(values)
      variance == NumDiv(SumNums([i \in DOMAIN values |-> MathPow(NumSub(values[i], mean), 2)]),
                         Num(Len(values)))
  IN MathSqrt(variance)

calculateSkewness(values) ==
  LET mean == Mean(values)
      std == calculateStandardDeviation(values)
      n == Len(values)
      skewnessSum == SumNums([i \in DOMAIN values |->
                        MathPow(NumDiv(NumSub(values[i], mean), std), 3)])
  IN NumMul(NumDiv(Num(n), Num((n - 1) * (n - 2))), skewnessSum)

calculateKurtosis(values) ==
  LET mean == Mean(values)
      std == calculateStandardDeviation(values)
      n == Len(values)
      kurtosisSum == SumNums([i \in DOMAIN values |->
                        MathPow(NumDiv(NumSub(values[i], mean), std), 4)])
  IN NumSub(NumMul(NumDiv(Num(n * (n + 1)), Num((n - 1) * (n - 2) * (n - 3))), kurtosisSum),
            NumDiv(Num(3 * (n - 1) * (n - 1)), Num((n - 2) * (n - 3))))

RECURSIVE MinOf(_)
\* Math.min(...values): Infinity for no argument
MinOf(values) ==
  IF values = <<>> THEN Infinity
  ELSE MathMin(MinOf(SubSeq(values, 1, Len(values) - 1)), values[Len(values)])

RECURSIVE MaxOf(_)
\* Math.max(...values): -Infinity for no argument
MaxOf(values) ==
  IF values = <<>> THEN NegInfinity
  ELSE MathMax(MaxOf(SubSeq(values, 1, Len(values) - 1)), values[Len(values)])

\* ------------------------------------------------------ JavaScript objects
\* An object is the sequence of its <<key, value>> properties in property
\* order: array-index keys (canonical non-negative integers) ascending,
\* then the other string keys in insertion order.
IsIndexKey(key) == key \in {"0", "2"}
IndexOf(key) == IF key = "0" THEN 0 ELSE 2

HasKey(obj, key) == \E i \in DOMAIN obj : obj[i][1] = key
Get(obj, key) == obj[CHOOSE i \in DOMAIN obj : obj[i][1] = key][2]
Keys(obj) == [i \in DOMAIN obj |-> obj[i][1]]

RECURSIVE InsertIndexKey(_, _, _)
InsertIndexKey(obj, key, val) ==
  IF obj = <<>> THEN <<<<key, val>>>>
  ELSE IF ~IsIndexKey(obj[1][1]) \/ IndexOf(key) < IndexOf(obj[1][1])
       THEN <<<<key, val>>>> \o obj
       ELSE <<obj[1]>> \o InsertIndexKey(Tail(obj), key, val)

\* obj[key] = val
Put(obj, key, val) ==
  IF HasKey(obj, key)
  THEN [i \in DOMAIN obj |-> IF obj[i][1] = key THEN <<key, val>> ELSE obj[i]]
  ELSE IF IsIndexKey(key) THEN InsertIndexKey(obj, key, val)
  ELSE Append(obj, <<key, val>>)

\* Array.prototype.filter
Filter(s, Test(_)) == SelectSeq(s, Test)

RECURSIVE CountValues(_, _)
\* validValues.forEach(val => valueCounts[String(val)] = (valueCounts[...] || 0) + 1)
CountValues(validValues, valueCounts) ==
  IF validValues = <<>> THEN valueCounts
  ELSE LET key == String(validValues[1])
           old == IF HasKey(valueCounts, key) THEN Get(valueCounts, key) ELSE 0
       IN CountValues(Tail(validValues), Put(valueCounts, key, old + 1))

RECURSIVE InsertByCount(_, _)
InsertByCount(sorted, e) ==
  IF sorted = <<>> THEN <<e>>
  ELSE IF e[2] > sorted[1][2] THEN <<e>> \o sorted
  ELSE <<sorted[1]>> \o InsertByCount(Tail(sorted), e)

RECURSIVE SortByCountDesc(_)
\* Object.entries(valueCounts).sort((a, b) => b[1] - a[1]) (stable)
SortByCountDesc(entries) ==
  IF entries = <<>> THEN <<>>
  ELSE InsertByCount(SortByCountDesc(SubSeq(entries, 1, Len(entries) - 1)),
                     entries[Len(entries)])

Take(s, k) == SubSeq(s, 1, IF Len(s) < k THEN Len(s) ELSE k)

\* ------------------------------------------------ descriptive statistics
NumericAnalysis(variable, numericValues) ==
  LET sorted == SortAscending(numericValues)
  IN [type |-> "numeric",
      count |-> Len(sorted),
      missing |-> variable.missing,
      mean |-> Mean(sorted),
      median |-> getPercentile(sorted, Percentile50),
      q1 |-> getPercentile(sorted, Percentile25),
      q3 |-> getPercentile(sorted, Percentile75),
      min |-> MinOf(sorted),
      max |-> MaxOf(sorted),
      std |-> calculateStandardDeviation(sorted),
      skewness |-> calculateSkewness(sorted),
      kurtosis |-> calculateKurtosis(sorted)]

\* CategoricalAnalysis with unique taken from the number of values
CategoricalAnalysisUniqueAsCount(variable, validValues) ==
  LET valueCounts == CountValues(validValues, <<>>)
      sortedCounts == SortByCountDesc(valueCounts)
  IN [type |-> "categorical",
      count |-> Len(validValues),
      missing |-> variable.missing,
      unique |-> Len(validValues),
      mode |-> IF sortedCounts = <<>> THEN "undefined" ELSE sortedCounts[1][1],
      modeCount |-> IF sortedCounts = <<>> THEN 0 ELSE sortedCounts[1][2],
      valueCounts |-> valueCounts,
      topValues |-> Take(sortedCounts, 5)]

CategoricalAnalysis(variable, validValues) ==
  LET valueCounts == CountValues(validValues, <<>>)
      sortedCounts == SortByCountDesc(valueCounts)
  IN [type |-> "categorical",
      count |-> Len(validValues),
      missing |-> variable.missing,
      unique |-> Len(valueCounts),
      mode |-> IF sortedCounts = <<>> THEN "undefined" ELSE sortedCounts[1][1],
      modeCount |-> IF sortedCounts = <<>> THEN 0 ELSE sortedCounts[1][2],
      valueCounts |-> valueCounts,
      topValues |-> Take(sortedCounts, 5)]

ParseAll(cells) == [i \in DOMAIN cells |-> parseFloat(cells[i])]
NotNaN(a) == ~IsNaN(a)

RECURSIVE AnalyzeVariables(_, _)
\* data.variables.forEach(variable => ...) accumulating into analysis
AnalyzeVariables(variables, analysis) ==
  IF variables = <<>> THEN analysis
  ELSE LET variable == variables[1]
           validValues == Filter(variable.values, IsValidValue)
           numericValues == Filter(ParseAll(validValues), NotNaN)
           next ==
             IF variable.type = "numeric"
             THEN IF Len(numericValues) > 0
                  THEN Put(analysis, variable.name, NumericAnalysis(variable, numericValues))
                  ELSE analysis
             ELSE Put(analysis, variable.name, CategoricalAnalysis(variable, validValues))
       IN AnalyzeVariables(Tail(variables), next)

performStatisticalAnalysis(data) == AnalyzeVariables(data.variables, <<>>)

\* ---------------------------------------------- weighted parameter estimator
NoVariable == [name |-> Null, type |-> "none", values |-> <<>>, missing |-> 0]
Found(variable) == variable.type # "none"

\* data.variables.find(v => v.name === name)
FindVariable(variables, name) ==
  IF \E i \in DOMAIN variables : variables[i].name = name
  THEN variables[CHOOSE i \in DOMAIN variables :
                   /\ variables[i].name = name
                   /\ \A j \in 1..(i - 1) : variables[j].name # name]
  ELSE NoVariable

RECURSIVE Distinct(_)
\* [...new Set(s)]: first occurrences, in order
Distinct(s) ==
  IF s = <<>> THEN <<>>
  ELSE LET head == Distinct(SubSeq(s, 1, Len(s) - 1))
       IN IF s[Len(s)] \in Range(head) THEN head ELSE Append(head, s[Len(s)])

NotNullNotEmpty(cell) == cell # Null /\ cell # ""

GroupLabels(baseVar) ==
  IF Found(baseVar)
  THEN LET present == Distinct(Filter(baseVar.values, NotNullNotEmpty))
       IN [i \in DOMAIN present |-> String(present[i])]
  ELSE <<"Overall">>

RECURSIVE IndicesWhere(_, _, _)
\* the (1-based) positions i >= from of values with String(values[i]) = group
IndicesWhere(values, group, from) ==
  IF from > Len(values) THEN <<>>
  ELSE (IF String(values[from]) = group THEN <<from>> ELSE <<>>)
       \o IndicesWhere(values, group, from + 1)

GroupIndices(baseVar, estimatingVar, group) ==
  IF Found(baseVar) /\ group # "Overall"
  THEN IndicesWhere(baseVar.values, group, 1)
  ELSE [i \in 1..Len(estimatingVar.values) |-> i]

\* values[idx]; undefined (filtered like null) beyond the end of the array
CellAt(values, idx) == IF idx \in DOMAIN values THEN values[idx] ELSE Null

GroupValues(estimatingVar, indices) ==
  Filter([k \in DOMAIN indices |-> CellAt(estimatingVar.values, indices[k])], IsValidValue)

\* parseFloat(cell) || 1
WeightOf(cell) ==
  LET w == parseFloat(cell)
  IN IF IsNaN(w) \/ w = Num(0) THEN Num(1) ELSE w

GroupWeights(weightVar, indices) ==
  IF Found(weightVar)
  THEN [k \in DOMAIN indices |-> WeightOf(CellAt(weightVar.values, indices[k]))]
  ELSE [k \in DOMAIN indices |-> Num(1)]

\* weights.slice(0, n)
ValidWeights(weights, n) == SubSeq(weights, 1, IF n < Len(weights) THEN n ELSE Len(weights))

\* weights[idx] inside reduce: undefined beyond the end of the array
WeightAt(weights, i) == IF i \in DOMAIN weights THEN weights[i] ELSE Undefined

calculateWeightedMean(values, weights) ==
  LET weightedSum == SumNums([i \in DOMAIN values |-> NumMul(values[i], WeightAt(weights, i))])
      totalWeight == SumNums(weights)
  IN NumDiv(weightedSum, totalWeight)

Z95 == Fix((196 * Scale) \div 100)
MedianFactor == Fix((157 * Scale) \div 100)

calculateMarginOfError(values, weights) ==
  LET weightedMean == calculateWeightedMean(values, weights)
      weightedVariance ==
        NumDiv(SumNums([i \in DOMAIN values |->
                  NumMul(WeightAt(weights, i), MathPow(NumSub(values[i], weightedMean), 2))]),
               SumNums(weights))
      effectiveSampleSize ==
        NumDiv(MathPow(SumNums(weights), 2),
               SumNums([i \in DOMAIN weights |-> NumMul(weights[i], weights[i])]))
  IN NumMul(Z95, MathSqrt(NumDiv(weightedVariance, effectiveSampleSize)))

\* <<estimate, marginOfError>> of one group
\* Estimate with the last value of the group as the PROPORTION target
EstimateLastTarget(param, estimatingVar, groupValues, weights) ==
  LET numericValues == Filter(ParseAll(groupValues), NotNaN)
      n == Len(groupValues)
  IN IF param.aggregationType = "Mean" /\ estimatingVar.type = "numeric"
     THEN LET validWeights == ValidWeights(weights, Len(numericValues))
          IN <<calculateWeightedMean(numericValues, validWeights),
               calculateMarginOfError(numericValues, validWeights)>>
     ELSE IF param.aggregationType = "Sum" /\ estimatingVar.type = "numeric"
     THEN <<SumNums(numericValues),
            NumDiv(NumMul(MathSqrt(Num(Len(numericValues))),
                          calculateStandardDeviation(numericValues)),
                   MathSqrt(Num(Len(numericValues))))>>
     ELSE IF param.aggregationType = "Proportion"
     THEN LET successes ==
                IF estimatingVar.type = "categorical" /\ n > 0
                THEN Len(SelectSeq(groupValues, LAMBDA v : v = groupValues[n]))
                ELSE 0
              estimate == NumDiv(Num(successes), Num(n))
          IN <<estimate,
               NumMul(Z95, MathSqrt(NumDiv(NumMul(estimate, NumSub(Num(1), estimate)), Num(n))))>>
     ELSE IF param.aggregationType = "Count"
     THEN <<Num(n), MathSqrt(Num(n))>>
     ELSE IF param.aggregationType = "Median" /\ estimatingVar.type = "numeric"
     THEN <<getPercentile(SortAscending(numericValues), Percentile50),
            NumDiv(NumMul(MedianFactor, calculateStandardDeviation(numericValues)),
                   MathSqrt(Num(Len(numericValues))))>>
     ELSE <<Num(0), Num(0)>>

Estimate(param, estimatingVar, groupValues, weights) ==
  LET numericValues == Filter(ParseAll(groupValues), NotNaN)
      n == Len(groupValues)
  IN IF param.aggregationType = "Mean" /\ estimatingVar.type = "numeric"
     THEN LET validWeights == ValidWeights(weights, Len(numericValues))
          IN <<calculateWeightedMean(numericValues, validWeights),
               calculateMarginOfError(numericValues, validWeights)>>
     ELSE IF param.aggregationType = "Sum" /\ estimatingVar.type = "numeric"
     THEN <<SumNums(numericValues),
            NumDiv(NumMul(MathSqrt(Num(Len(numericValues))),
                          calculateStandardDeviation(numericValues)),
                   MathSqrt(Num(Len(numericValues))))>>
     ELSE IF param.aggregationType = "Proportion"
     THEN LET successes ==
                IF estimatingVar.type = "categorical" /\ n > 0
                THEN Len(SelectSeq(groupValues, LAMBDA v : v = groupValues[1]))
                ELSE 0
              estimate == NumDiv(Num(successes), Num(n))
          IN <<estimate,
               NumMul(Z95, MathSqrt(NumDiv(NumMul(estimate, NumSub(Num(1), estimate)), Num(n))))>>
     ELSE IF param.aggregationType = "Count"
     THEN <<Num(n), MathSqrt(Num(n))>>
     ELSE IF param.aggregationType = "Median" /\ estimatingVar.type = "numeric"
     THEN <<getPercentile(SortAscending(numericValues), Percentile50),
            NumDiv(NumMul(MedianFactor, calculateStandardDeviation(numericValues)),
                   MathSqrt(Num(Len(numericValues))))>>
     ELSE <<Num(0), Num(0)>>

\* ConfidenceInterval without the floor at 0
ConfidenceIntervalUnfloored(estimate, marginOfError) ==
  <<NumSub(estimate, marginOfError), NumAdd(estimate, marginOfError)>>

\* ConfidenceInterval with the floor applied to both ends
ConfidenceIntervalFloored(estimate, marginOfError) ==
  <<MathMax(Num(0), NumSub(estimate, marginOfError)),
    MathMax(Num(0), NumAdd(estimate, marginOfError))>>

ConfidenceInterval(estimate, marginOfError) ==
  <<MathMax(Num(0), NumSub(estimate, marginOfError)), NumAdd(estimate, marginOfError)>>

\* GroupEstimate with weightedN summed over the present values only
GroupEstimatePresentOnly(param, estimatingVar, baseVar, weightVar, group) ==
  LET indices == GroupIndices(baseVar, estimatingVar, group)
      groupValues == GroupValues(estimatingVar, indices)
      weights == GroupWeights(weightVar, indices)
      em == Estimate(param, estimatingVar, groupValues, weights)
  IN [group |-> group,
      estimate |-> em[1],
      marginOfError |-> em[2],
      confidenceInterval |-> ConfidenceInterval(em[1], em[2]),
      sampleSize |-> Len(groupValues),
      weightedN |-> SumNums(ValidWeights(weights, Len(groupValues)))]

\* GroupEstimate with sampleSize counting every selected row
GroupEstimateAllRows(param, estimatingVar, baseVar, weightVar, group) ==
  LET indices == GroupIndices(baseVar, estimatingVar, group)
      groupValues == GroupValues(estimatingVar, indices)
      weights == GroupWeights(weightVar, indices)
      em == Estimate(param, estimatingVar, groupValues, weights)
  IN [group |-> group,
      estimate |-> em[1],
      marginOfError |-> em[2],
      confidenceInterval |-> ConfidenceInterval(em[1], em[2]),
      sampleSize |-> Len(indices),
      weightedN |-> SumNums(weights)]

GroupEstimate(param, estimatingVar, baseVar, weightVar, group) ==
  LET indices == GroupIndices(baseVar, estimatingVar, group)
      groupValues == GroupValues(estimatingVar, indices)
      weights == GroupWeights(weightVar, indices)
      em == Estimate(param, estimatingVar, groupValues, weights)
  IN [group |-> group,
      estimate |-> em[1],
      marginOfError |-> em[2],
      confidenceInterval |-> ConfidenceInterval(em[1], em[2]),
      sampleSize |-> Len(groupValues),
      weightedN |-> SumNums(weights)]

NullEstimate ==
  [estimatingParameter |-> Null, baseParameter |-> Null, aggregationType |-> Null,
   weightVariable |-> Null, groups |-> <<>>]

\* the callback of parameters.map
ParameterEstimate(data, param) ==
  LET estimatingVar == FindVariable(data.variables, param.estimatingParameter)
      baseVar == IF param.baseParameter # "None"
                 THEN FindVariable(data.variables, param.baseParameter) ELSE NoVariable
      weightVar == IF param.weightVariable # ""
                   THEN FindVariable(data.variables, param.weightVariable) ELSE NoVariable
      groups == GroupLabels(baseVar)
  IN IF ~Found(estimatingVar) THEN NullEstimate
     ELSE [estimatingParameter |-> param.estimatingParameter,
           baseParameter |-> param.baseParameter,
           aggregationType |-> param.aggregationType,
           weightVariable |-> param.weightVariable,
           groups |-> [g \in DOMAIN groups |->
                         GroupEstimate(param, estimatingVar, baseVar, weightVar, groups[g])]]

\* .filter(Boolean)
Truthy(result) == result # NullEstimate
DropNull(results) == Filter(results, Truthy)

computeParameterEstimates(data, params) ==
  DropNull([p \in DOMAIN params |-> ParameterEstimate(data, params[p])])

\* ------------------------------------------------------------ visualization
HistogramBins == 20

\* the exception of histogram[binIndex].count++ on an undefined element
Thrown == <<"TypeError">>

\* Math.min(Math.floor((val - min) / binWidth), bins - 1); NaN is -1 here
BinIndex(val, min, binWidth, bins) ==
  LET q == NumDiv(NumSub(val, min), binWidth)
  IN IF IsNaN(q) THEN -1
     ELSE IF ~IsNum(q) THEN (IF q.t = "inf" THEN bins - 1 ELSE -1)
     ELSE IF MathFloor(q) < bins - 1 THEN MathFloor(q) ELSE bins - 1

generateHistogramData(values, bins) ==
  LET min == MinOf(values)
      max == MaxOf(values)
      binWidth == NumDiv(NumSub(max, min), Num(bins))
      index == [k \in DOMAIN values |-> BinIndex(values[k], min, binWidth, bins)]
  IN IF \E k \in DOMAIN values : index[k] < 0 \/ index[k] >= bins
     THEN Thrown
     ELSE [i \in 1..bins |->
             [range |-> <<NumAdd(min, NumMul(Num(i - 1), binWidth)),
                          NumAdd(min, NumMul(Num(i), binWidth))>>,
              count |-> Cardinality({k \in DOMAIN values : index[k] = i - 1})]]

\* Number(x.toFixed(1)): x rounded to one decimal
ToFixed1(a) ==
  IF ~IsNum(a) THEN a
  ELSE Fix(((a.v * 10 + (Scale \div 2)) \div Scale) * (Scale \div 10))

BarData(varAnalysis) ==
  [i \in DOMAIN varAnalysis.topValues |->
     [label |-> varAnalysis.topValues[i][1],
      count |-> varAnalysis.topValues[i][2],
      percentage |-> ToFixed1(NumMul(NumDiv(Num(varAnalysis.topValues[i][2]),
                                            Num(varAnalysis.count)), Num(100)))]]

RECURSIVE Visualize(_, _, _)
\* Object.entries(analysis).forEach(...) accumulating into visualizations
Visualize(data, entries, visualizations) ==
  IF entries = <<>> THEN visualizations
  ELSE LET varName == entries[1][1]
           varAnalysis == entries[1][2]
           variable == FindVariable(data.variables, varName)
           histogram == generateHistogramData(Filter(ParseAll(variable.values), NotNaN),
                                              HistogramBins)
       IN IF varAnalysis.type = "numeric"
          THEN IF ~Found(variable) THEN Visualize(data, Tail(entries), visualizations)
               ELSE IF histogram = Thrown THEN Thrown
               ELSE Visualize(data, Tail(entries),
                      Put(visualizations, varName,
                          [type |-> "histogram", data |-> histogram, stats |-> varAnalysis]))
          ELSE Visualize(data, Tail(entries),
                 Put(visualizations, varName,
                     [type |-> "bar", data |-> BarData(varAnalysis), stats |-> varAnalysis]))

generateVisualizationData(data, analysis) == Visualize(data, analysis, <<>>)

\* ------------------------------------------------------------ insight rules
MissingRateThreshold == 15

MissingRate(data, analysis) ==
  LET totalMissing == SumNums([i \in DOMAIN analysis |-> Num(analysis[i][2].missing)])
  IN NumMul(NumDiv(totalMissing, Num(data.totalRows * Len(data.variables))), Num(100))

QualityInsights(data, analysis) ==
  IF NumLt(Num(MissingRateThreshold), MissingRate(data, analysis))
  THEN <<[category |-> "Data Quality Alert", significance |-> "high",
          type |-> "warning", subject |-> ""]>>
  ELSE <<>>

MathAbs(a) == IF IsNum(a) THEN (IF a.v < 0 THEN Fix(0 - a.v) ELSE a)
              ELSE IF IsNaN(a) THEN NaN ELSE Infinity

NumericInsights(varName, varAnalysis) ==
  (IF NumLt(Num(2), MathAbs(varAnalysis.skewness))
   THEN <<[category |-> "Distribution Analysis", significance |-> "medium",
           type |-> "trend", subject |-> varName]>>
   ELSE <<>>)
  \o
  (IF NumLt(Num(3), varAnalysis.kurtosis)
   THEN <<[category |-> "Outlier Detection", significance |-> "medium",
           type |-> "anomaly", subject |-> varName]>>
   ELSE <<>>)

CategoricalInsights(varName, varAnalysis) ==
  (IF NumLt(Num(80), NumMul(NumDiv(Num(varAnalysis.modeCount), Num(varAnalysis.count)), Num(100)))
   THEN <<[category |-> "Response Pattern", significance |-> "medium",
           type |-> "pattern", subject |-> varName]>>
   ELSE <<>>)
  \o
  (IF NumLt(Fix((9 * Scale) \div 10), NumDiv(Num(varAnalysis.unique), Num(varAnalysis.count)))
   THEN <<[category |-> "Data Structure", significance |-> "low",
           type |-> "info", subject |-> varName]>>
   ELSE <<>>)

RECURSIVE PerVariableInsights(_, _)
PerVariableInsights(entries, kind) ==
  IF entries = <<>> THEN <<>>
  ELSE (IF entries[1][2].type # kind THEN <<>>
        ELSE IF kind = "numeric" THEN NumericInsights(entries[1][1], entries[1][2])
        ELSE CategoricalInsights(entries[1][1], entries[1][2]))
       \o PerVariableInsights(Tail(entries), kind)

GoalInsights(data) ==
  IF data.analysisGoal # ""
  THEN <<[category |-> "Analysis Recommendation", significance |-> "high",
          type |-> "recommendation", subject |-> ""]>>
  ELSE <<>>

generateAIInsights(data, analysis) ==
  QualityInsights(data, analysis)
  \o PerVariableInsights(analysis, "numeric")
  \o PerVariableInsights(analysis, "categorical")
  \o GoalInsights(data)

\* ------------------------------------------------------------ quality score
ConsistencyScore == 95
ValidityScore == 90

\* Math.round
MathRound(a) == IF ~IsNum(a) THEN a ELSE Fix(((a.v + (Scale \div 2)) \div Scale) * Scale)

calculateQualityScore(data) ==
  LET totalCells == data.totalRows * Len(data.variables)
      missingCells == SumNums([i \in DOMAIN data.variables |-> Num(data.variables[i].missing)])
      completeness == NumMul(NumDiv(NumSub(Num(totalCells), missingCells), Num(totalCells)),
                             Num(100))
  IN MathRound(NumAdd(NumAdd(NumMul(completeness, Fix((4 * Scale) \div 10)),
                             NumMul(Num(ConsistencyScore), Fix((3 * Scale) \div 10))),
                      NumMul(Num(ValidityScore), Fix((3 * Scale) \div 10))))

\* ------------------------------------------------------------ the requests
ColumnNames == <<"score", "region", "wt">>
ColumnTypes == {"numeric", "categorical"}

ScoreCells == {"", "-3", "2"}
RegionCells == {"", "A", "Overall"}
WeightCells == {"", "0", "2"}
AnyCells == {"", Null, "x", "-3", "0", "2", "A"}

Aggregations == <<"Mean", "Sum", "Proportion", "Count", "Median">>

\* the number of empty cells, as the upload parser counts missing values
MissingIn(values) == Cardinality({i \in DOMAIN values : values[i] = "" \/ values[i] = Null})

Column(name, type, values) ==
  [name |-> name, type |-> type, values |-> values, missing |-> MissingIn(values)]

\* what the upload parser hands to the page: no values property on a variable
Uploaded(n, k, types, missing) ==
  [totalRows |-> n,
   variables |-> [i \in 1..k |-> [name |-> ColumnNames[i], type |-> types[i],
                                  missing |-> missing[i]]]]

\* ResultsDashboard.performAnalysis: the request body built from the upload
AnalysisData(uploaded) ==
  [variables |-> [i \in DOMAIN uploaded.variables |->
                    [name |-> uploaded.variables[i].name,
                     type |-> uploaded.variables[i].type,
                     values |-> <<>>,
                     missing |-> uploaded.variables[i].missing]],
   totalRows |-> uploaded.totalRows,
   analysisGoal |-> ""]

NoParameters == [given |-> FALSE, list |-> <<>>]

Request(estimating, base, aggregation, weight) ==
  [estimatingParameter |-> estimating, baseParameter |-> base,
   aggregationType |-> aggregation, weightVariable |-> weight]

\* one request per aggregation type on the same columns, and one request
\* that names a column the dataset does not have
ParameterList(estimating, base, weight) ==
  <<Request(estimating, base, Aggregations[1], weight),
    Request("nosuch", base, Aggregations[4], weight)>>
  \o [a \in 1..(Len(Aggregations) - 1) |->
        Request(estimating, base, Aggregations[a + 1], weight)]

EstimationData(n, score, region, wt, cols) ==
  [variables |-> SelectSeq(<<Column("score", "numeric", score),
                             Column("region", "categorical", region),
                             Column("wt", "numeric", wt)>>,
                           LAMBDA c : c.name \in cols),
   totalRows |-> n,
   analysisGoal |-> ""]

\* ------------------------------------------------------------ the handler
\* The analyze-survey function: data, parameters (the request), pc (the
\* handler's position), statisticalAnalysis, parameterEstimates, insights,
\* visualizations (its locals) and response.
\* The FileUpload component: component (the source file the component is
\* built from), file (the dropped file), uploadStep (the position of onDrop
\* and reader.onload), processedData (the argument onFileProcessed was
\* called with) and toast (the title of the last toast).
VARIABLES data, parameters, pc, statisticalAnalysis, parameterEstimates,
          insights, visualizations, response,
          component, file, uploadStep, processedData, toast,
          currentStep, uploadedData, showPreview

functionVars == <<data, parameters, pc, statisticalAnalysis, parameterEstimates,
                  insights, visualizations, response>>
uploadVars == <<component, file, uploadStep, processedData, toast>>
pageVars == <<currentStep, uploadedData, showPreview>>
vars == <<functionVars, uploadVars, pageVars>>

NoFile == [name |-> "", text |-> <<>>]
NoProcessedData == [fileName |-> ""]
NoToast == ""
NoUploadedData == [fileName |-> ""]

\* the state of the page after its first render
PageInitial ==
  /\ currentStep = "upload"
  /\ uploadedData = NoUploadedData
  /\ showPreview = FALSE

\* no file has been dropped
UploadIdle ==
  /\ component = "none"
  /\ file = NoFile
  /\ uploadStep = "idle"
  /\ processedData = NoProcessedData
  /\ toast = NoToast
  /\ PageInitial

NoResponse == [status |-> 0, qualityScore |-> Undefined,
               numericVars |-> 0, categoricalVars |-> 0,
               keyFindings |-> <<>>, highPriorityInsights |-> 0]

\* the dashboard forwards what the upload parser produced
DashboardRequest ==
  \E n \in 0..MaxRows, k \in 1..MaxUploadCols :
    \E types \in [1..k -> ColumnTypes], missing \in [1..k -> 0..n] :
      /\ data = AnalysisData(Uploaded(n, k, types, missing))
      /\ parameters = NoParameters

\* a caller of the function that sends one column with its values
SingleColumnRequest ==
  \E n \in 0..MaxRows, ty \in ColumnTypes, goal \in {"", "segments"} :
    \E vs \in [1..n -> AnyCells] :
      /\ data = [variables |-> <<Column("score", ty, vs)>>, totalRows |-> n,
                 analysisGoal |-> goal]
      /\ parameters = NoParameters

GroupedRequest ==
  \E n \in 1..MaxRows, est \in {"score", "region"}, base \in {"None", "region"} :
    \E sc \in [1..n -> ScoreCells], rg \in [1..n -> RegionCells] :
      /\ data = EstimationData(n, sc, rg, <<>>, {"score", "region"})
      /\ parameters = [given |-> TRUE, list |-> ParameterList(est, base, "")]

WeightedRequest ==
  \E n \in 1..MaxRows :
    \E sc \in [1..n -> ScoreCells], wt \in [1..n -> WeightCells] :
      /\ data = EstimationData(n, sc, <<>>, wt, {"score", "wt"})
      /\ parameters = [given |-> TRUE, list |-> ParameterList("score", "None", "wt")]

WeightedGroupedRequest ==
  \E n \in 1..(MaxRows - 1), est \in {"score", "region"} :
    \E sc \in [1..n -> ScoreCells], rg \in [1..n -> RegionCells],
       wt \in [1..n -> WeightCells] :
      /\ data = EstimationData(n, sc, rg, wt, {"score", "region", "wt"})
      /\ parameters = [given |-> TRUE, list |-> ParameterList(est, "region", "wt")]

Init ==
  /\ \/ DashboardRequest
     \/ SingleColumnRequest
     \/ GroupedRequest
     \/ WeightedRequest
     \/ WeightedGroupedRequest
  /\ pc = "analysis"
  /\ statisticalAnalysis = <<>>
  /\ parameterEstimates = <<>>
  /\ insights = <<>>
  /\ visualizations = <<>>
  /\ response = NoResponse
  /\ UploadIdle

\* A performStatisticalAnalysis that reorders the values of the numeric
\* columns it was given
DataAfterAnalysisReorderingInput(dataset) ==
  [dataset EXCEPT !.variables =
     [i \in DOMAIN dataset.variables |->
        [dataset.variables[i] EXCEPT !.values =
           IF dataset.variables[i].type = "numeric"
           THEN [k \in DOMAIN @ |-> @[Len(@) + 1 - k]]
           ELSE @]]]

\* The dataset after performStatisticalAnalysis: validValues and numericValues
\* are arrays built by filter and map, and numericValues.sort sorts that
\* array in place; variable.values is only read.
DataAfterAnalysis(dataset) ==
  [dataset EXCEPT !.variables =
     [i \in DOMAIN dataset.variables |->
        [dataset.variables[i] EXCEPT !.values = dataset.variables[i].values]]]

\* The dataset after computeParameterEstimates: groupValues, weights and
\* numericValues are built by map and filter; the MEDIAN sort is applied to
\* numericValues.
DataAfterEstimates(dataset) ==
  [dataset EXCEPT !.variables =
     [i \in DOMAIN dataset.variables |->
        [dataset.variables[i] EXCEPT !.values = dataset.variables[i].values]]]

\* The dataset after generateVisualizationData: the histogram input is built
\* by map and filter.
DataAfterVisualization(dataset) ==
  [dataset EXCEPT !.variables =
     [i \in DOMAIN dataset.variables |->
        [dataset.variables[i] EXCEPT !.values = dataset.variables[i].values]]]

PerformStatisticalAnalysis ==
  /\ pc = "analysis"
  /\ statisticalAnalysis' = performStatisticalAnalysis(data)
  /\ data' = DataAfterAnalysis(data)
  /\ pc' = "estimates"
  /\ UNCHANGED <<parameters, parameterEstimates, insights, visualizations, response>>
  /\ UNCHANGED <<uploadVars, pageVars>>

ComputeParameterEstimates ==
  /\ pc = "estimates"
  /\ parameterEstimates' = IF parameters.given
                           THEN computeParameterEstimates(data, parameters.list)
                           ELSE <<>>
  /\ data' = IF parameters.given THEN DataAfterEstimates(data) ELSE data
  /\ pc' = "insights"
  /\ UNCHANGED <<parameters, statisticalAnalysis, insights, visualizations, response>>
  /\ UNCHANGED <<uploadVars, pageVars>>

GenerateAIInsights ==
  /\ pc = "insights"
  /\ insights' = generateAIInsights(data, statisticalAnalysis)
  /\ pc' = "visualizations"
  /\ UNCHANGED <<data, parameters, statisticalAnalysis, parameterEstimates, visualizations, response>>
  /\ UNCHANGED <<uploadVars, pageVars>>

\* an exception anywhere in the handler is answered with status 500
GenerateVisualizationData ==
  /\ pc = "visualizations"
  /\ LET result == generateVisualizationData(data, statisticalAnalysis)
     IN IF result = Thrown
        THEN /\ pc' = "failed"
             /\ response' = [NoResponse EXCEPT !.status = 500]
             /\ UNCHANGED visualizations
        ELSE /\ pc' = "respond"
             /\ visualizations' = result
             /\ UNCHANGED response
  /\ data' = DataAfterVisualization(data)
  /\ UNCHANGED <<parameters, statisticalAnalysis, parameterEstimates, insights>>
  /\ UNCHANGED <<uploadVars, pageVars>>

CountType(analysis, kind) == Cardinality({i \in DOMAIN analysis : analysis[i][2].type = kind})

Respond ==
  /\ pc = "respond"
  /\ response' = [status |-> 200,
                  qualityScore |-> calculateQualityScore(data),
                  numericVars |-> CountType(statisticalAnalysis, "numeric"),
                  categoricalVars |-> CountType(statisticalAnalysis, "categorical"),
                  keyFindings |-> Take(insights, 3),
                  highPriorityInsights |->
                    Cardinality({i \in DOMAIN insights : insights[i].significance = "high"})]
  /\ pc' = "done"
  /\ UNCHANGED <<data, parameters, statisticalAnalysis, parameterEstimates, insights, visualizations>>
  /\ UNCHANGED <<uploadVars, pageVars>>

Next ==
  \/ PerformStatisticalAnalysis
  \/ ComputeParameterEstimates
  \/ GenerateAIInsights
  \/ GenerateVisualizationData
  \/ Respond

Spec == Init /\ [][Next]_vars

TypeOK == pc \in {"idle", "analysis", "estimates", "insights", "visualizations", "respond", "done", "failed"}

\* ============================================================== file upload
\* The text of a file is a sequence of characters.
BOM == "\\uFEFF"
Alphabet == {"a", "1", ",", "\"", "\n", "\r", " ", BOM}
\* the characters String.prototype.trim and Number skip at both ends
WhiteSpace == {" ", "\n", "\r", BOM}
Digits == {"0", "1"}

RECURSIVE TrimStart(_)
TrimStart(s) ==
  IF s # <<>> /\ s[1] \in WhiteSpace THEN TrimStart(Tail(s)) ELSE s

RECURSIVE TrimEnd(_)
TrimEnd(s) ==
  IF s # <<>> /\ s[Len(s)] \in WhiteSpace THEN TrimEnd(SubSeq(s, 1, Len(s) - 1)) ELSE s

\* s.trim()
Trim(s) == TrimEnd(TrimStart(s))

RECURSIVE SplitFrom(_, _, _)
\* the pieces of s between separators, given the piece collected so far
SplitFrom(s, separator, piece) ==
  IF s = <<>> THEN <<piece>>
  ELSE IF s[1] = separator THEN <<piece>> \o SplitFrom(Tail(s), separator, <<>>)
  ELSE SplitFrom(Tail(s), separator, Append(piece, s[1]))

\* s.split(separator) for a one-character separator
Split(s, separator) == SplitFrom(s, separator, <<>>)

\* s.replace(/"/g, '')
RemoveQuotes(s) == SelectSeq(s, LAMBDA c : c # "\"")

\* s.toLowerCase()
ToLowerCase(s) == [i \in DOMAIN s |-> IF s[i] = "A" THEN "a" ELSE s[i]]

\* s.includes(word)
Includes(s, word) ==
  \E i \in 1..(Len(s) - Len(word) + 1) : SubSeq(s, i, i + Len(word) - 1) = word

RECURSIVE IntOf(_)
\* the value of a sequence of digits
IntOf(digits) ==
  IF digits = <<>> THEN 0
  ELSE 10 * IntOf(SubSeq(digits, 1, Len(digits) - 1))
       + (IF digits[Len(digits)] = "1" THEN 1 ELSE 0)

\* Number(s): the digits between surrounding white space, 0 when nothing is left
NumberOf(s) ==
  IF \A i \in DOMAIN Trim(s) : Trim(s)[i] \in Digits THEN Num(IntOf(Trim(s))) ELSE NaN

RECURSIVE DigitPrefix(_)
DigitPrefix(s) ==
  IF s # <<>> /\ s[1] \in Digits THEN <<s[1]>> \o DigitPrefix(Tail(s)) ELSE <<>>

\* parseFloat(s): the longest prefix of digits after leading white space
parseFloatOf(s) ==
  IF DigitPrefix(TrimStart(s)) = <<>> THEN NaN ELSE Num(IntOf(DigitPrefix(TrimStart(s))))

\* file.name.match(/\.(csv|xlsx)$/i)
MatchesCsvOrXlsx(name) == name \in {"survey.csv", "survey.XLSX"}


\* ------------------------------------------- reader.onload of FileUpload.tsx
NumericHeaderWords ==
  {<<"a", "g", "e">>, <<"i", "n", "c", "o", "m", "e">>,
   <<"s", "c", "o", "r", "e">>, <<"r", "a", "t", "i", "n", "g">>}

HeaderLooksNumeric(header) ==
  \E word \in NumericHeaderWords : Includes(ToLowerCase(header), word)

\* text.split('\n').filter(line => line.trim())
NonBlankLines(text) == SelectSeq(Split(text, "\n"), LAMBDA line : Trim(line) # <<>>)

\* line.split(',').map(h => h.trim().replace(/"/g, ''))
SplitHeaders(line) ==
  [i \in DOMAIN Split(line, ",") |-> RemoveQuotes(Trim(Split(line, ",")[i]))]

\* the largest value Math.floor(Math.random() * totalRows * 0.05) can take
MaxRandomMissing(totalRows) ==
  IF totalRows = 0 THEN 0 ELSE (5 * totalRows - 1) \div 100

RECURSIVE SumMissing(_)
\* variables.reduce((sum, v) => sum + v.missing, 0)
SumMissing(variables) ==
  IF variables = <<>> THEN 0 ELSE variables[1].missing + SumMissing(Tail(variables))

\* the dataset descriptor built from the header line, given the random draws
MockData(f, draws) ==
  LET lines == NonBlankLines(f.text)
      headers == SplitHeaders(lines[1])
      variables ==
        [i \in DOMAIN headers |->
           [name |-> headers[i],
            type |-> IF HeaderLooksNumeric(headers[i]) THEN "numeric" ELSE "categorical",
            missing |-> draws[i]]]
  IN [fileName |-> f.name,
      totalRows |-> Len(lines) - 1,
      totalColumns |-> Len(headers),
      missingValues |-> SumMissing(variables),
      variables |-> variables]

\* ------------------- reader.onload of the FileUpload kept in DataPreview.tsx
RemoveBOM(s) == IF s # <<>> /\ s[1] = BOM THEN Tail(s) ELSE s

RECURSIVE ReplaceCRLF(_)
\* s.replace(/\r\n/g, '\n')
ReplaceCRLF(s) ==
  IF s = <<>> THEN <<>>
  ELSE IF Len(s) >= 2 /\ s[1] = "\r" /\ s[2] = "\n"
  THEN <<"\n">> \o ReplaceCRLF(SubSeq(s, 3, Len(s)))
  ELSE <<s[1]>> \o ReplaceCRLF(Tail(s))

\* s.replace(/\r/g, '\n')
ReplaceCR(s) == [i \in DOMAIN s |-> IF s[i] = "\r" THEN "\n" ELSE s[i]]

CleanText(csvText) == ReplaceCR(ReplaceCRLF(RemoveBOM(csvText)))

\* cleanText.trim().split('\n')
CleanLines(csvText) == Split(Trim(CleanText(csvText)), "\n")

\* lines.length < 2
TooFewLines(lines) == Len(lines) < 2

RECURSIVE ScanLine(_, _, _, _, _)
\* the while loop of parseCSVLine from position i on, with the final push
ScanLine(line, i, result, current, inQuotes) ==
  IF i > Len(line)
  THEN [result |-> Append(result, Trim(current)), inQuotes |-> inQuotes]
  ELSE IF line[i] = "\""
  THEN IF inQuotes /\ i + 1 <= Len(line) /\ line[i + 1] = "\""
       THEN ScanLine(line, i + 2, result, Append(current, "\""), inQuotes)
       ELSE ScanLine(line, i + 1, result, current, ~inQuotes)
  ELSE IF line[i] = "," /\ ~inQuotes
  THEN ScanLine(line, i + 1, Append(result, Trim(current)), <<>>, inQuotes)
  ELSE ScanLine(line, i + 1, result, Append(current, line[i]), inQuotes)

\* A parseCSVLine that splits at every comma and drops every quote
parseCSVLineSplit(line) ==
  [i \in DOMAIN Split(line, ",") |-> Trim(RemoveQuotes(Split(line, ",")[i]))]

parseCSVLine(line) == ScanLine(line, 1, <<>>, <<>>, FALSE).result

\* values[index] || ''
FieldOrEmpty(values, index) == IF index \in DOMAIN values THEN values[index] ELSE <<>>

LastIndex(headers, header) ==
  CHOOSE i \in DOMAIN headers :
    headers[i] = header /\ \A j \in DOMAIN headers : headers[j] = header => j <= i

\* the row object: a later column of the same header overwrites an earlier one
RowOf(headers, values) ==
  [header \in Range(headers) |-> FieldOrEmpty(values, LastIndex(headers, header))]

AllData(lines) ==
  [i \in 1..(Len(lines) - 1) |-> RowOf(parseCSVLine(lines[1]), parseCSVLine(lines[i + 1]))]

\* numericCount > values.length * 0.5 && values.length > 0
IsNumericColumn(numericCount, present) ==
  2 * numericCount > present /\ present > 0

\* headers.map(header => ...) for one header
AnalyzeColumn(header, allData) ==
  LET cells == [i \in DOMAIN allData |-> allData[i][header]]
      values == SelectSeq(cells, LAMBDA value : value # <<>>)
      missing == Len(cells) - Len(values)
      numericCount == Len(SelectSeq(values, LAMBDA value : ~IsNaN(NumberOf(value))))
      uniqueValues == Cardinality(Range(values))
      parsed == [i \in DOMAIN values |-> parseFloatOf(values[i])]
      numericValues == SelectSeq(parsed, LAMBDA v : ~IsNaN(v))
  IN IF IsNumericColumn(numericCount, Len(values))
     THEN [name |-> header, type |-> "numeric", missing |-> missing,
           uniqueValues |-> uniqueValues,
           mean |-> IF Len(numericValues) > 0
                    THEN NumDiv(SumNums(numericValues), Num(Len(numericValues)))
                    ELSE Num(0),
           min |-> IF Len(numericValues) > 0 THEN MinOf(numericValues) ELSE Num(0),
           max |-> IF Len(numericValues) > 0 THEN MaxOf(numericValues) ELSE Num(0)]
     ELSE [name |-> header, type |-> "categorical", missing |-> missing,
           uniqueValues |-> uniqueValues]

SampleRows == 10

\* the dataset descriptor handed to onFileProcessed
ProcessedData(f) ==
  LET lines == CleanLines(f.text)
      headers == parseCSVLine(lines[1])
      allData == AllData(lines)
      variables == [i \in DOMAIN headers |-> AnalyzeColumn(headers[i], allData)]
  IN [fileName |-> f.name,
      totalRows |-> Len(lines) - 1,
      totalColumns |-> Len(headers),
      missingValues |-> SumMissing(variables),
      variables |-> variables,
      sampleData |-> Take(allData, SampleRows)]

\* ------------------------------------------------------ the dropped files
MaxTextLen == 4

FileNames == {"survey.csv", "survey.XLSX", "notes.txt"}
Components == {"FileUpload.tsx", "DataPreview.tsx"}
HeaderTexts == {<<"a">>, <<"A", "g", "e">>}
CellTexts == {<<>>, <<"1">>, <<"a">>}

RECURSIVE Join(_, _)
\* pieces.join(separator)
Join(pieces, separator) ==
  IF pieces = <<>> THEN <<>>
  ELSE IF Len(pieces) = 1 THEN pieces[1]
  ELSE pieces[1] \o <<separator>> \o Join(Tail(pieces), separator)

QuoteAlphabet == {"a", ",", "\""}
QuotedCells == {<<"a">>, <<"\"", ",", "\"", ",", "a">>, <<"\"", "\"", "\"", "\"">>,
                <<"\"", "\n", "\"">>}

\* any short text
FreeTextFile ==
  \E n \in 0..MaxTextLen :
    \E text \in [1..n -> Alphabet] :
      file = [name |-> "survey.csv", text |-> text]

\* a file of any name
NamedFile ==
  \E name \in FileNames :
    file = [name |-> name, text |-> <<"a", "\n", "1">>]

\* a table of one column
OneColumnFile ==
  \E n \in 0..MaxRows, header \in HeaderTexts :
    \E cells \in [1..n -> CellTexts] :
      file = [name |-> "survey.csv", text |-> Join(<<header>> \o cells, "\n")]

\* a table of two columns
TwoColumnFile ==
  \E n \in 0..(MaxRows - 1), first \in HeaderTexts, second \in HeaderTexts :
    \E cells \in [1..n -> CellTexts \X CellTexts] :
      file = [name |-> "survey.csv",
              text |-> Join(<<Join(<<first, second>>, ",")>>
                              \o [i \in 1..n |-> Join(cells[i], ",")], "\n")]

\* a table whose header line and data line hold quotes and commas
QuotedLineFile ==
  \E n \in 0..(MaxTextLen + 2), row \in QuotedCells :
    \E header \in [1..n -> QuoteAlphabet] :
      file = [name |-> "survey.csv", text |-> header \o <<"\n">> \o row]

\* the analyze-survey function has not been called
FunctionIdle ==
  /\ data = [variables |-> <<>>, totalRows |-> 0, analysisGoal |-> ""]
  /\ parameters = NoParameters
  /\ pc = "idle"
  /\ statisticalAnalysis = <<>>
  /\ parameterEstimates = <<>>
  /\ insights = <<>>
  /\ visualizations = <<>>
  /\ response = NoResponse

UploadInit ==
  /\ \/ FreeTextFile
     \/ NamedFile
     \/ OneColumnFile
     \/ TwoColumnFile
     \/ QuotedLineFile
  /\ component \in Components
  /\ uploadStep = "dropped"
  /\ processedData = NoProcessedData
  /\ toast = NoToast
  /\ PageInitial
  /\ FunctionIdle

\* handleFileProcessed of the page, which the page passes as onFileProcessed
handleFileProcessed(dataset) ==
  /\ uploadedData' = dataset
  /\ currentStep' = "preview"
  /\ UNCHANGED showPreview

\* onDrop up to reader.readAsText(file)
OnDrop ==
  /\ uploadStep = "dropped"
  /\ IF MatchesCsvOrXlsx(file.name)
     THEN uploadStep' = "reading" /\ UNCHANGED toast
     ELSE uploadStep' = "rejected" /\ toast' = "Invalid file type"
  /\ UNCHANGED <<component, file, processedData>>
  /\ UNCHANGED pageVars
  /\ UNCHANGED functionVars

\* reader.onload of FileUpload.tsx
OnLoad ==
  /\ uploadStep = "reading"
  /\ component = "FileUpload.tsx"
  /\ IF NonBlankLines(file.text) = <<>>
     THEN /\ uploadStep' = "failed"
          /\ toast' = "Processing failed"
          /\ UNCHANGED processedData
          /\ UNCHANGED pageVars
     ELSE /\ \E draws \in [DOMAIN SplitHeaders(NonBlankLines(file.text)[1]) ->
                             0..MaxRandomMissing(Len(NonBlankLines(file.text)) - 1)] :
               processedData' = MockData(file, draws)
          /\ handleFileProcessed(processedData')
          /\ uploadStep' = "processed"
          /\ toast' = "File processed successfully"
  /\ UNCHANGED <<component, file>>
  /\ UNCHANGED functionVars

\* reader.onload of the FileUpload kept in DataPreview.tsx
OnLoadQuoted ==
  /\ uploadStep = "reading"
  /\ component = "DataPreview.tsx"
  /\ IF TooFewLines(CleanLines(file.text))
     THEN /\ uploadStep' = "failed"
          /\ toast' = "Processing failed"
          /\ UNCHANGED processedData
          /\ UNCHANGED pageVars
     ELSE /\ processedData' = ProcessedData(file)
          /\ handleFileProcessed(processedData')
          /\ uploadStep' = "processed"
          /\ toast' = "File processed successfully"
  /\ UNCHANGED <<component, file>>
  /\ UNCHANGED functionVars

UploadNext ==
  \/ OnDrop
  \/ OnLoad
  \/ OnLoadQuoted

UploadSpec == UploadInit /\ [][UploadNext]_vars

\* ----------------------------------------------------------- the Index page
\* a table of one column and some twenty rows
LongColumnFile ==
  \E n \in {MaxLongRows - 1, MaxLongRows} :
    file = [name |-> "survey.csv",
            text |-> Join(<<<<"a">>>> \o [i \in 1..n |-> <<"1">>], "\n")]

\* the page imports FileUpload from components/survey/FileUpload
IndexInit ==
  /\ \/ OneColumnFile
     \/ NamedFile
     \/ LongColumnFile
  /\ component = "FileUpload.tsx"
  /\ uploadStep = "dropped"
  /\ processedData = NoProcessedData
  /\ toast = NoToast
  /\ PageInitial
  /\ FunctionIdle

\* currentStep === 'upload': the FileUpload is rendered
FileUploadRendered == currentStep = "upload"

\* the DataPreview is rendered by the 'preview' step and by the 'results'
\* step when showPreview is set
DataPreviewRendered ==
  /\ uploadedData # NoUploadedData
  /\ \/ currentStep = "preview"
     \/ currentStep = "results" /\ showPreview

\* the 'results' step without the preview: the ResultsDashboard and its buttons
DashboardRendered ==
  /\ uploadedData # NoUploadedData
  /\ currentStep = "results"
  /\ ~showPreview

\* the same file is dropped on the FileUpload once more
DropAgain ==
  /\ FileUploadRendered
  /\ uploadStep \in {"processed", "failed", "rejected"}
  /\ uploadStep' = "dropped"
  /\ UNCHANGED <<component, file, processedData, toast>>
  /\ UNCHANGED <<functionVars, pageVars>>

\* the state of the page after handleStartAnalysis: setCurrentStep('results')
\* is its only statement
AfterStartAnalysis ==
  [currentStep |-> "results", uploadedData |-> uploadedData, showPreview |-> showPreview]

\* onStartAnalysis of the DataPreview
HandleStartAnalysis ==
  /\ DataPreviewRendered
  /\ currentStep' = AfterStartAnalysis.currentStep
  /\ uploadedData' = AfterStartAnalysis.uploadedData
  /\ showPreview' = AfterStartAnalysis.showPreview
  /\ UNCHANGED <<functionVars, uploadVars>>

\* the button View Data Preview
HandleBackToPreview ==
  /\ DashboardRendered
  /\ showPreview' = TRUE
  /\ UNCHANGED <<currentStep, uploadedData>>
  /\ UNCHANGED <<functionVars, uploadVars>>

\* the button Back to Analysis
BackToAnalysis ==
  /\ DataPreviewRendered
  /\ currentStep = "results"
  /\ showPreview' = FALSE
  /\ UNCHANGED <<currentStep, uploadedData>>
  /\ UNCHANGED <<functionVars, uploadVars>>

\* A handleStartOver that leaves showPreview as it is
HandleStartOverKeepingPreview ==
  /\ uploadedData # NoUploadedData
  /\ currentStep = "results"
  /\ currentStep' = "upload"
  /\ uploadedData' = NoUploadedData
  /\ UNCHANGED showPreview
  /\ UNCHANGED <<functionVars, uploadVars>>

\* the button Start Over, which both renderings of the 'results' step have
HandleStartOver ==
  /\ uploadedData # NoUploadedData
  /\ currentStep = "results"
  /\ currentStep' = "upload"
  /\ uploadedData' = NoUploadedData
  /\ showPreview' = FALSE
  /\ UNCHANGED <<functionVars, uploadVars>>

IndexNext ==
  \/ FileUploadRendered /\ OnDrop
  \/ FileUploadRendered /\ OnLoad
  \/ DropAgain
  \/ HandleStartAnalysis
  \/ HandleBackToPreview
  \/ BackToAnalysis
  \/ HandleStartOver

IndexSpec == IndexInit /\ [][IndexNext]_vars

\* ==================================================================== claims
Analysed == pc # "analysis"
Estimated == pc \notin {"analysis", "estimates"} /\ parameters.given
Visualized == pc \in {"respond", "done"}

ColumnNameSet == {data.variables[i].name : i \in DOMAIN data.variables}
AnalysisOf(i) == statisticalAnalysis[i][2]
NumericEntries == {i \in DOMAIN statisticalAnalysis : AnalysisOf(i).type = "numeric"}

EstVar(r) == FindVariable(data.variables, r.estimatingParameter)
BaseVar(r) == IF r.baseParameter # "None"
              THEN FindVariable(data.variables, r.baseParameter) ELSE NoVariable
WeightVar(r) == IF r.weightVariable # ""
                THEN FindVariable(data.variables, r.weightVariable) ELSE NoVariable

\* all <<result, group>> positions of the estimation results
GroupPositions ==
  UNION { {<<i, j>> : j \in DOMAIN parameterEstimates[i].groups} :
          i \in DOMAIN parameterEstimates }
ResultAt(pos) == parameterEstimates[pos[1]]
GroupAt(pos) == parameterEstimates[pos[1]].groups[pos[2]]

\* the rows the estimator selected for a group
SelectedRows(pos) ==
  Range(GroupIndices(BaseVar(ResultAt(pos)), EstVar(ResultAt(pos)), GroupAt(pos).group))
EstimatingCell(pos, row) == CellAt(EstVar(ResultAt(pos)).values, row)
RowWeight(pos, row) ==
  IF Found(WeightVar(ResultAt(pos)))
  THEN WeightOf(CellAt(WeightVar(ResultAt(pos)).values, row))
  ELSE Num(1)

RECURSIVE SumOver(_, _)
\* the sum of F[row] over a finite set of rows
SumOver(rows, F) ==
  IF rows = {} THEN Num(0)
  ELSE LET row == CHOOSE x \in rows : \A y \in rows : x >= y
       IN NumAdd(SumOver(rows \ {row}, F), F[row])

\* C1: every column analysis satisfies count + missing = totalRows
C1_CountPlusMissingIsTotalRows ==
  Analysed =>
    \A i \in DOMAIN statisticalAnalysis :
      AnalysisOf(i).count + AnalysisOf(i).missing = data.totalRows

\* C2: the analysis map, and the visualization map built from it, have
\* exactly one entry per column of the dataset, tagged with the column's kind
C2_OneAnalysisPerColumn ==
  /\ Analysed =>
       /\ Len(statisticalAnalysis) = Len(data.variables)
       /\ Range(Keys(statisticalAnalysis)) = ColumnNameSet
       /\ \A i \in DOMAIN statisticalAnalysis :
            AnalysisOf(i).type = FindVariable(data.variables, statisticalAnalysis[i][1]).type
  /\ Visualized => Range(Keys(visualizations)) = ColumnNameSet

C4_ConfidenceInterval ==
  Estimated =>
    \A pos \in GroupPositions :
      LET g == GroupAt(pos)
          d == NumSub(g.estimate, g.marginOfError)
      IN /\ g.confidenceInterval[1] =
              (IF IsNaN(d) THEN NaN ELSE IF NumLt(d, Num(0)) THEN Num(0) ELSE d)
         /\ g.confidenceInterval[2] = NumAdd(g.estimate, g.marginOfError)

\* a group whose lower end is floored at 0 while its upper end is negative
C4_Witness ==
  /\ Estimated
  /\ \E pos \in GroupPositions :
       /\ IsNum(GroupAt(pos).estimate)
       /\ GroupAt(pos).confidenceInterval[1] = Num(0)
       /\ NumLt(GroupAt(pos).confidenceInterval[2], Num(0))

\* C5: one result slot per request, in request order
C5_OneSlotPerRequest ==
  Estimated =>
    /\ Len(parameterEstimates) = Len(parameters.list)
    /\ \A i \in DOMAIN parameterEstimates :
         i \in DOMAIN parameters.list =>
           /\ parameterEstimates[i].estimatingParameter = parameters.list[i].estimatingParameter
           /\ parameterEstimates[i].aggregationType = parameters.list[i].aggregationType

\* C6: no estimates are returned for MEAN, SUM or MEDIAN on a categorical column
C6_UnsupportedAggregationFails ==
  Estimated =>
    \A i \in DOMAIN parameterEstimates :
      ~ /\ parameterEstimates[i].aggregationType \in {"Mean", "Sum", "Median"}
        /\ EstVar(parameterEstimates[i]).type = "categorical"

\* C7: with a grouping column there is one group per distinct present value,
\* and the rows of a group are exactly the rows holding its label
C7_GroupRows ==
  Estimated =>
    \A i \in DOMAIN parameterEstimates :
      LET r == parameterEstimates[i]
          base == BaseVar(r)
          present == {c \in Range(base.values) : NotNullNotEmpty(c)}
      IN Found(base) =>
           /\ Len(r.groups) = Cardinality(present)
           /\ {r.groups[j].group : j \in DOMAIN r.groups} = present
           /\ \A j \in DOMAIN r.groups :
                SelectedRows(<<i, j>>) =
                  {row \in DOMAIN base.values : base.values[row] = r.groups[j].group}

\* C8: a weighted MEAN is sum(w_r * x_r) / sum(w_r) over the group rows r
\* whose estimating value is present
C8_WeightedMeanAligned ==
  Estimated =>
    \A pos \in GroupPositions :
      LET r == ResultAt(pos)
          rows == {row \in SelectedRows(pos) : ~IsNaN(parseFloat(EstimatingCell(pos, row)))}
          wx == [row \in rows |-> NumMul(parseFloat(EstimatingCell(pos, row)), RowWeight(pos, row))]
          w == [row \in rows |-> RowWeight(pos, row)]
      IN (r.aggregationType = "Mean" /\ EstVar(r).type = "numeric" /\ Found(WeightVar(r))) =>
           GroupAt(pos).estimate = NumDiv(SumOver(rows, wx), SumOver(rows, w))

UnweightedGroupedMean(r) ==
  /\ r.aggregationType = "Mean"
  /\ EstVar(r).type = "numeric"
  /\ ~Found(WeightVar(r))
  /\ Found(BaseVar(r))

DistinctPresent(variable) == {c \in Range(variable.values) : NotNullNotEmpty(c)}

\* C9 as stated: k groups, each with weightedN = sampleSize
C9_WeightedNIsSampleSize ==
  Estimated =>
    \A i \in DOMAIN parameterEstimates :
      LET r == parameterEstimates[i]
      IN UnweightedGroupedMean(r) =>
           /\ Len(r.groups) = Cardinality(DistinctPresent(BaseVar(r)))
           /\ \A j \in DOMAIN r.groups : r.groups[j].weightedN = Num(r.groups[j].sampleSize)

\* C9 amended: k groups, each with weightedN = sampleSize + the number of
\* rows selected for the group whose estimating value is missing
C9_WeightedNCountsMissingRows ==
  Estimated =>
    \A i \in DOMAIN parameterEstimates :
      LET r == parameterEstimates[i]
      IN UnweightedGroupedMean(r) =>
           /\ Len(r.groups) = Cardinality(DistinctPresent(BaseVar(r)))
           /\ \A j \in DOMAIN r.groups :
                r.groups[j].weightedN =
                  Num(r.groups[j].sampleSize
                      + Cardinality({row \in SelectedRows(<<i, j>>) :
                                       ~IsValidValue(EstimatingCell(<<i, j>>, row))}))

\* an unweighted grouped MEAN with two groups, one without and one with a
\* missing estimating value
C9_Witness ==
  /\ Estimated
  /\ \E i \in DOMAIN parameterEstimates :
       LET r == parameterEstimates[i]
       IN /\ UnweightedGroupedMean(r)
          /\ Len(r.groups) = 2
          /\ \E j \in DOMAIN r.groups :
               r.groups[j].sampleSize >= 1 /\ r.groups[j].weightedN = Num(r.groups[j].sampleSize)
          /\ \E j \in DOMAIN r.groups :
               NumLt(Num(r.groups[j].sampleSize), r.groups[j].weightedN)

\* C10: weightedN sums the weights of all rows of the group, sampleSize
\* counts the rows whose estimating value is present
C10_WeightedNAllRows ==
  Estimated =>
    \A pos \in GroupPositions :
      /\ GroupAt(pos).weightedN =
           SumOver(SelectedRows(pos), [row \in SelectedRows(pos) |-> RowWeight(pos, row)])
      /\ GroupAt(pos).sampleSize =
           Cardinality({row \in SelectedRows(pos) : IsValidValue(EstimatingCell(pos, row))})

\* a weighted group in which a row with a missing estimating value carries a
\* weight other than 1
C10_Witness ==
  /\ Estimated
  /\ \E pos \in GroupPositions :
       /\ Found(WeightVar(ResultAt(pos)))
       /\ GroupAt(pos).sampleSize >= 1
       /\ \E row \in SelectedRows(pos) :
            /\ ~IsValidValue(EstimatingCell(pos, row))
            /\ RowWeight(pos, row) # Num(1)
       /\ NumLt(Num(GroupAt(pos).sampleSize + 1), GroupAt(pos).weightedN)

\* the weight the row is meant to carry: the parsed cell, 1 when it does not parse
ParsedWeight(pos, row) ==
  IF Found(WeightVar(ResultAt(pos)))
  THEN LET w == parseFloat(CellAt(WeightVar(ResultAt(pos)).values, row))
       IN IF IsNaN(w) THEN Num(1) ELSE w
  ELSE Num(1)

\* C11: each row weighs what its weight cell parses to (0 for a cell that
\* parses to 0), 1 when the cell does not parse or no weight column is given,
\* so the weights a group reports sum to the parsed cells of its rows
C11_WeightIsParsedCell ==
  Estimated =>
    \A pos \in GroupPositions :
      GroupAt(pos).weightedN =
        SumOver(SelectedRows(pos), [row \in SelectedRows(pos) |-> ParsedWeight(pos, row)])

\* the present estimating cells of a group, by row
PresentRows(pos) == {row \in SelectedRows(pos) : IsValidValue(EstimatingCell(pos, row))}
FirstPresentRow(pos) == CHOOSE row \in PresentRows(pos) : \A o \in PresentRows(pos) : row <= o

CategoricalProportion(r) ==
  /\ r.aggregationType = "Proportion"
  /\ Found(EstVar(r))
  /\ EstVar(r).type = "categorical"

C13_SkewnessKurtosisFinite ==
  Analysed =>
    \A i \in NumericEntries :
      IsNum(AnalysisOf(i).skewness) /\ IsNum(AnalysisOf(i).kurtosis)

\* the visualization step has run, to its end or to an exception
VisualizationAttempted == pc \in {"respond", "done", "failed"}

\* the numbers generateVisualizationData hands to generateHistogramData
HistogramInput(i) ==
  Filter(ParseAll(FindVariable(data.variables, statisticalAnalysis[i][1]).values), NotNaN)

RECURSIVE SumCounts(_)
SumCounts(histogram) ==
  IF histogram = <<>> THEN 0 ELSE histogram[1].count + SumCounts(Tail(histogram))

HistogramOf(i) == Get(visualizations, statisticalAnalysis[i][1]).data

\* C14: the bins generateHistogramData returns for a numeric column count
\* every value once: the counts sum to the number of values
C14_HistogramCountsSum ==
  VisualizationAttempted =>
    \A i \in NumericEntries :
      /\ HasKey(visualizations, statisticalAnalysis[i][1])
      /\ SumCounts(HistogramOf(i)) = Len(HistogramInput(i))

\* C15: for a constant numeric column generateHistogramData completes with
\* one bin of defined bounds that holds all the values
C15_ConstantColumnSingleBin ==
  VisualizationAttempted =>
    \A i \in NumericEntries :
      AnalysisOf(i).min = AnalysisOf(i).max =>
        /\ HasKey(visualizations, statisticalAnalysis[i][1])
        /\ \E b \in DOMAIN HistogramOf(i) :
             /\ HistogramOf(i)[b].count = Len(HistogramInput(i))
             /\ IsNum(HistogramOf(i)[b].range[1])
             /\ IsNum(HistogramOf(i)[b].range[2])

PresentValues(i) ==
  Filter(FindVariable(data.variables, statisticalAnalysis[i][1]).values, IsValidValue)
Frequency(values, v) == Cardinality({k \in DOMAIN values : String(values[k]) = v})
FirstSeen(values, v) == CHOOSE k \in DOMAIN values :
                          /\ String(values[k]) = v
                          /\ \A o \in DOMAIN values : String(values[o]) = v => k <= o

\* C17: the mode of a categorical column with a present value has maximal
\* frequency, is the first seen of the values tied for it, and modeCount is
\* its frequency
C17_ModeFirstSeen ==
  Analysed =>
    \A i \in DOMAIN statisticalAnalysis :
      LET a == AnalysisOf(i)
          values == PresentValues(i)
          seen == {String(values[k]) : k \in DOMAIN values}
      IN (a.type = "categorical" /\ a.count > 0) =>
           /\ a.mode \in seen
           /\ a.modeCount = Frequency(values, a.mode)
           /\ \A v \in seen :
                \/ Frequency(values, v) < a.modeCount
                \/ /\ Frequency(values, v) = a.modeCount
                   /\ FirstSeen(values, a.mode) <= FirstSeen(values, v)

\* reader.onload has run, to its end or to its catch
Loaded == uploadStep \in {"processed", "failed"}
Delivered == uploadStep = "processed"

\* the cells of column i of the data lines, and those of them that are present
ColumnCells(i) ==
  [r \in 1..(Len(CleanLines(file.text)) - 1) |->
     FieldOrEmpty(parseCSVLine(CleanLines(file.text)[r + 1]), i)]
PresentCells(i) == SelectSeq(ColumnCells(i), LAMBDA cell : cell # <<>>)
NumericCells(i) == SelectSeq(PresentCells(i), LAMBDA cell : ~IsNaN(NumberOf(cell)))

\* C18: a delivered column is numeric exactly when more than 0.8 of its
\* present values parse as numbers, so a column without present values is
\* categorical
C18_NumericAboveEightTenths ==
  Delivered =>
    \A i \in DOMAIN processedData.variables :
      processedData.variables[i].type = "numeric"
        <=> 10 * Len(NumericCells(i)) > 8 * Len(PresentCells(i))

\* the number of lines of the normalised text: one more than its line breaks
NormalisedLineCount ==
  1 + Cardinality({i \in DOMAIN Trim(CleanText(file.text)) :
                     Trim(CleanText(file.text))[i] = "\n"})

\* C19: a file whose normalised text has fewer than 2 lines fails to parse
\* and onFileProcessed is not called for it
C19_TooFewLinesRejected ==
  (Loaded /\ NormalisedLineCount < 2) =>
    /\ uploadStep = "failed"
    /\ processedData = NoProcessedData

\* a double quote opens a field that no later double quote closes
UnterminatedQuote ==
  Cardinality({i \in DOMAIN file.text : file.text[i] = "\""}) % 2 = 1

\* C20: a file with an unterminated quoted field fails to parse and no
\* dataset is delivered for it
C20_UnterminatedQuoteRejected ==
  (Loaded /\ UnterminatedQuote) =>
    /\ uploadStep = "failed"
    /\ processedData = NoProcessedData

\* the cells and the missing cells the caller declares
TotalCells == data.totalRows * Len(data.variables)
DeclaredMissing == SumMissing(data.variables)

\* C24: the quality score is an integer in 0..100, namely
\* round(0.4 * completeness + 0.3 * 95 + 0.3 * 90) with
\* completeness = 100 * (1 - missingCells / totalCells)
C24_QualityScoreInRange ==
  pc = "done" =>
    /\ IsNum(response.qualityScore)
    /\ NumLe(Num(0), response.qualityScore)
    /\ NumLe(response.qualityScore, Num(100))
    /\ TotalCells > 0 =>
         response.qualityScore =
           Num((2 * (40 * (TotalCells - DeclaredMissing) * 10 + 555 * TotalCells)
                + 10 * TotalCells) \div (20 * TotalCells))

InsightsGenerated == pc \in {"visualizations", "respond", "done", "failed"}
HighWarnings ==
  {i \in DOMAIN insights : insights[i].significance = "high" /\ insights[i].type = "warning"}

\* C25: a high-significance warning is emitted exactly when the missing
\* counts of all columns exceed 15% of totalRows * number of columns, and it
\* is then the first insight
C25_MissingRateWarning ==
  InsightsGenerated =>
    /\ HighWarnings # {} <=> 100 * DeclaredMissing > MissingRateThreshold * TotalCells
    /\ HighWarnings # {} => HighWarnings = {1}

\* C27 as stated: the confidence interval of every group estimate has
\* lower <= upper
C27_IntervalOrdered ==
  Estimated =>
    \A pos \in GroupPositions :
      NumLe(GroupAt(pos).confidenceInterval[1], GroupAt(pos).confidenceInterval[2])

\* C27 amended: the interval is ordered exactly when its upper end is a
\* number >= 0; a negative upper end lies below the lower end floored at 0,
\* and an undefined estimate has no ordered interval
C27_IntervalOrderedIffUpperNonNegative ==
  Estimated =>
    \A pos \in GroupPositions :
      NumLe(GroupAt(pos).confidenceInterval[1], GroupAt(pos).confidenceInterval[2])
        <=> NumLe(Num(0), GroupAt(pos).confidenceInterval[2])

\* a group with a positive lower end below its upper end and a group whose
\* upper end is negative
C27_Witness ==
  /\ Estimated
  /\ \E pos \in GroupPositions :
       /\ NumLt(Num(0), GroupAt(pos).confidenceInterval[1])
       /\ NumLt(GroupAt(pos).confidenceInterval[1], GroupAt(pos).confidenceInterval[2])
  /\ \E pos \in GroupPositions :
       /\ GroupAt(pos).confidenceInterval[1] = Num(0)
       /\ NumLt(GroupAt(pos).confidenceInterval[2], Num(0))

SupportedAggregation(r) ==
  \/ r.aggregationType \in {"Proportion", "Count"}
  \/ r.aggregationType \in {"Mean", "Sum", "Median"} /\ EstVar(r).type = "numeric"

\* C28: for a supported aggregation every group estimate has a finite
\* estimate and a finite margin of error
C28_EstimateFinite ==
  Estimated =>
    \A pos \in GroupPositions :
      SupportedAggregation(ResultAt(pos)) =>
        IsNum(GroupAt(pos).estimate) /\ IsNum(GroupAt(pos).marginOfError)

QuotesBefore(line, i) == Cardinality({j \in 1..(i - 1) : line[j] = "\""})

\* the commas of a line that stand outside quotes
OutsideCommas(line) ==
  {i \in DOMAIN line : line[i] = "," /\ QuotesBefore(line, i) % 2 = 0}

\* a double quote inside a quoted field that another double quote follows
DoubledQuote(line, i) ==
  /\ line[i] = "\""
  /\ QuotesBefore(line, i) % 2 = 1
  /\ i + 1 <= Len(line)
  /\ line[i + 1] = "\""

\* the characters of positions from..to that belong to the field's value
RECURSIVE FieldValue(_, _, _)
FieldValue(line, from, to) ==
  IF from > to THEN <<>>
  ELSE IF line[from] # "\"" \/ DoubledQuote(line, from)
  THEN <<line[from]>> \o FieldValue(line, from + 1, to)
  ELSE FieldValue(line, from + 1, to)

\* field k of a line lies between its (k-1)-th and its k-th outside comma
FieldStart(line, k) ==
  IF k = 1 THEN 1
  ELSE 1 + CHOOSE i \in OutsideCommas(line) :
             Cardinality({j \in OutsideCommas(line) : j <= i}) = k - 1
FieldEnd(line, k) ==
  IF k = Cardinality(OutsideCommas(line)) + 1 THEN Len(line)
  ELSE (CHOOSE i \in OutsideCommas(line) :
          Cardinality({j \in OutsideCommas(line) : j <= i}) = k) - 1
FieldsOf(line) ==
  [k \in 1..(Cardinality(OutsideCommas(line)) + 1) |->
     Trim(FieldValue(line, FieldStart(line, k), FieldEnd(line, k)))]

QuoteAware == component = "DataPreview.tsx"

QuotedLineBreaks ==
  LET text == Trim(CleanText(file.text))
  IN {i \in DOMAIN text : text[i] = "\n" /\ QuotesBefore(text, i) % 2 = 1}
RecordBreaks ==
  LET text == Trim(CleanText(file.text))
  IN {i \in DOMAIN text : text[i] = "\n" /\ QuotesBefore(text, i) % 2 = 0}

\* C22: a line break inside a quoted field does not end the row: a file of
\* a header record and n data records is delivered with n data rows
C22_QuotedLineBreakKept ==
  (Loaded /\ QuoteAware /\ ~UnterminatedQuote
     /\ QuotedLineBreaks # {} /\ RecordBreaks # {}) =>
    /\ Delivered
    /\ processedData.totalRows = Cardinality(RecordBreaks)

\* C29: the page is at 'preview' or 'results' only while it holds an uploaded
\* dataset, and it is at 'upload' only in its initial state, the one
\* handleStartOver restores: no dataset and showPreview cleared
C29_StepsHoldDataset ==
  /\ currentStep \in {"preview", "results"} => uploadedData # NoUploadedData
  /\ currentStep = "upload" => uploadedData = NoUploadedData /\ showPreview = FALSE

\* handleStartOver has brought the page back from a delivered dataset
C29_Witness ==
  /\ currentStep = "upload"
  /\ uploadedData = NoUploadedData
  /\ showPreview = FALSE
  /\ processedData # NoProcessedData
  /\ uploadStep = "processed"

\* C30: handleStartAnalysis, invoked from a rendered Data Preview, leaves
\* the page at 'results' with showPreview cleared
C30_StartAnalysisShowsDashboard ==
  DataPreviewRendered =>
    /\ AfterStartAnalysis.currentStep = "results"
    /\ AfterStartAnalysis.showPreview = FALSE

\* C23: the same text read twice is delivered as the same descriptor
C23_SameTextSameDescriptor ==
  [][(uploadStep = "reading" /\ uploadStep' = "processed"
        /\ processedData # NoProcessedData)
      => processedData' = processedData]_vars

====
